---- MODULE Spec2Model ----
(***************************************************************************)
(* Streaming transcription fan-out pipeline.                               *)
(*                                                                         *)
(* Three builds of the worker are in the repository:                       *)
(*   "single"       src/src/index.ts       env-configured, one target      *)
(*   "singleDomain" src/unnamed/part_000   env-configured, one target      *)
(*   "queue"        src/unnamed/part_001   SQS-driven, list of targets,    *)
(*                                         metadata-attach, profanity      *)
(*                                         filter                          *)
(* The variable `variant` says which build a behaviour is of.              *)
(***************************************************************************)
EXTENDS Integers, Sequences, FiniteSets, TLC

VARIABLES
    variant,      \* which build runs
    fromLang,     \* source language of the run
    toLangs,      \* target languages of the run, as the code holds them: a list
    phase,        \* "Streaming" while the for-await loop runs, "Terminated" after
    clients,      \* remote clients and decoder: "constructed" / "destroyed" / "absent"
    nEvents,      \* recognition events taken by the main loop so far
    nDropped,     \* events the classifier dropped
    tasks,        \* delivery tasks started so far, in creation order
    failuresLeft, \* publish-call failures the environment may still inject
    taskCap,      \* delivery tasks the run may start in all
    segReads,     \* source reads not yet pulled by the segmenter
    segPulled,    \* source reads pulled so far
    segCur,       \* length of the read being sliced (-1 when none)
    segOffset,    \* `offset` of audioStreamGenerator
    segChunks,    \* chunks yielded so far
    segAsked,     \* next() calls the consumer has made on the generator
    segPc,        \* "off" | "pull" | "slice" | "yielded" | "done"
    msgs,         \* queue messages the worker received, in order
    returning,    \* main has executed `return` and is in its finally block
    shuttingDown, \* the flag the signal handlers of the queue build set
    signals,      \* the phases at which SIGINT/SIGTERM arrived, in order
    exitCode,     \* argument of process.exit, NoExit while the process lives
    exitPath,     \* the branch on which the current run ended, "none" before
    owner,        \* per client variable: the run that constructed its object
    destroyCalls  \* per client variable: destroy() calls / signals sent to its object

pipeVars == <<variant, fromLang, toLangs, phase, clients, nEvents, nDropped, tasks,
              failuresLeft, taskCap>>
pipeVars_but_phase == <<variant, fromLang, toLangs, clients, nEvents, nDropped, tasks,
                        failuresLeft, taskCap>>
segVars == <<segReads, segPulled, segCur, segOffset, segChunks, segAsked, segPc>>
lifeVars == <<msgs, returning, shuttingDown, signals, exitCode, exitPath, owner, destroyCalls>>
vars == <<variant, fromLang, toLangs, phase, clients, nEvents, nDropped, tasks,
          failuresLeft, taskCap, segReads, segPulled, segCur, segOffset, segChunks, segAsked,
          segPc,
          msgs, returning, shuttingDown, signals, exitCode, exitPath, owner, destroyCalls>>

----------------------------------------------------------------------------
(* Bounds of the model *)

\* recognition events a run takes
MaxEvents == 2
\* delivery tasks a run starts, all languages together
MaxTasks == 3
\* failed publish calls (push or metadata-attach) in a run of Spec
MaxFailures == 1
\* delivery tasks a run of SpecRetry starts
MaxRetryTasks == 2
\* failed publish calls in a run of SpecRetry
MaxRetryFailures == 4
\* source reads given to the segmenter
MaxReads == 3
\* queue messages a worker of SpecLife receives
MaxMessages == 2
\* shutdown signals a process of SpecLife gets
MaxSignals == 1
\* delivery tasks a process of SpecLife starts: one result, delivered in the
\* source language
MaxLifeTasks == 1
\* failed publish calls in a behaviour of SpecLife
MaxLifeFailures == 1
\* delivery tasks a run of SpecOrder starts: two results, each delivered in
\* the source language and in one target language
MaxOrderTasks == 4
\* failed publish calls in a run of SpecOrder
MaxOrderFailures == 1

(* Program constants *)

MAX_CHUNK_SIZE == 32000
maxAttempts == 3
BackoffBaseMs == 500

----------------------------------------------------------------------------
(* Inputs *)

Variants == {"single", "singleDomain", "queue"}

DefaultLang == "en-IE"

\* jobData.toLangs is whatever list the queue message holds
QueueTargetLists ==
    { <<>>, <<"en-IE">>, <<"fr-FR">>, <<"en-IE", "fr-FR">>,
      <<"fr-FR", "de-DE">>, <<"fr-FR", "fr-FR">> }

\* TO_LANG is one language
SingleTargetLists == { <<"en-IE">>, <<"fr-FR">> }

NoId == ""

\* Transcript of an alternative: absent/empty, or a sentence with a profane word
Transcripts == {"", "hello damn"}

Alternative(t) == [Transcript |-> t]

Result(id, partial, alts) == [ResultId |-> id, IsPartial |-> partial, Alternatives |-> alts]

\* A second alternative and a second result, which the code never looks at.
OtherAlternative == Alternative("other")
OtherResult == Result("r9", FALSE, <<Alternative("second")>>)

ResultSet ==
    { Result(id, p, alts) :
        id \in {NoId, "r1"}, p \in BOOLEAN,
        alts \in {<<>>} \cup { <<Alternative(t)>> : t \in Transcripts }
                 \cup { <<Alternative("hello damn"), OtherAlternative>> } }

\* event.TranscriptEvent.Transcript.Results; a missing field reads as an empty list
Events ==
    { [Results |-> <<>>] }
      \cup { [Results |-> <<r>>] : r \in ResultSet }
      \cup { [Results |-> <<Result("r1", FALSE, <<Alternative("hello damn")>>), OtherResult>>] }

\* what a publish call or the translation call can be answered with
Errors == {"ThrottlingException", "ChannelNotBroadcasting"}
Ok == "ok"
Outcomes == {Ok} \cup Errors

TranslatedTextOf(lang) == IF lang = "fr-FR" THEN "bonjour" ELSE "hallo"

\* the answers of TranslateTextCommand: a text, no text, or a rejection
TranslateResponses(lang) ==
    { [ok |-> TRUE, TranslatedText |-> TranslatedTextOf(lang)],
      [ok |-> TRUE, TranslatedText |-> ""],
      [ok |-> FALSE, TranslatedText |-> ""] }

\* the lengths a source read can have
ReadSizes == {0, 1, 18000, 25000, 32000, 32001, 50000, 64001}

----------------------------------------------------------------------------
(* Pure helpers *)

Min(a, b) == IF a <= b THEN a ELSE b

RECURSIVE Pow2(_)
Pow2(n) == IF n = 0 THEN 1 ELSE 2 * Pow2(n - 1)

\* badWordsFilter.clean: a profane word is replaced by asterisks of its length
Clean(t) == IF t = "hello damn" THEN "hello ****" ELSE t

isChannelNotBroadcastingError(err) == err = "ChannelNotBroadcasting"

\* toLangs.some((lang) => lang !== fromLang)   /   fromLang !== toLang
needsTranslation == \E k \in 1..Len(toLangs) : toLangs[k] # fromLang

----------------------------------------------------------------------------
(* One retry loop: a publish call with its `attempts` counter.  calls, waits,
   logs, giveUps, nbs and delays record what the loop did; rejected says that
   the async function ended by throwing, which no path of the code does. *)

NewLoop ==
    [st |-> "idle", attempts |-> 0, calls |-> 0, waits |-> 0, logs |-> 0,
     giveUps |-> 0, nbs |-> 0, delays |-> <<>>, text |-> "", rejected |-> FALSE]

\* the delay computed from the attempts made before the failed one
BackoffDelay_FromZero(attempts) == BackoffBaseMs * Pow2(attempts - 1)

\* `500 * 2 ** attempts`, evaluated after `attempts++`
BackoffDelay(attempts) == BackoffBaseMs * Pow2(attempts)

\* `await client.send(command)`: the call is issued
IssueCall(l) == [l EXCEPT !.st = "inflight", !.calls = @ + 1]

\* the first attempt put on a timer instead of being sent in the caller's turn
FirstCall_Deferred(l, text) == [l EXCEPT !.text = text, !.st = "backoff"]

\* the command is built and the first attempt is sent
FirstCall(l, text) == IssueCall([l EXCEPT !.text = text])

\* the catch block retrying at once: the backoff promise is not awaited
RetryOrGiveUp_NoWait(l) ==
    LET a == l.attempts + 1 IN
    IF a >= maxAttempts
    THEN [l EXCEPT !.attempts = a, !.logs = @ + 1, !.giveUps = @ + 1, !.st = "gaveUp"]
    ELSE [l EXCEPT !.attempts = a, !.logs = @ + 1, !.calls = @ + 1, !.st = "inflight"]

\* the catch block rethrowing once the attempts are used up
RetryOrGiveUp_Rethrow(l) ==
    LET a == l.attempts + 1 IN
    IF a >= maxAttempts
    THEN [l EXCEPT !.attempts = a, !.logs = @ + 1, !.giveUps = @ + 1, !.st = "gaveUp",
                   !.rejected = TRUE]
    ELSE [l EXCEPT !.attempts = a, !.logs = @ + 1, !.waits = @ + 1,
                   !.delays = Append(@, BackoffDelay(a)), !.st = "backoff"]

\* the catch block of the retry loop, from `attempts++` on
RetryOrGiveUp(l) ==
    LET a == l.attempts + 1 IN
    IF a >= maxAttempts
    THEN [l EXCEPT !.attempts = a, !.logs = @ + 1, !.giveUps = @ + 1, !.st = "gaveUp"]
    ELSE [l EXCEPT !.attempts = a, !.logs = @ + 1, !.waits = @ + 1,
                   !.delays = Append(@, BackoffDelay(a)), !.st = "backoff"]

NoteError(l, err) ==
    IF isChannelNotBroadcastingError(err) THEN [l EXCEPT !.nbs = @ + 1] ELSE l

\* sendTranscriptEvent: the answer of ivsChatClient.send
PushAnswered(l, outcome) ==
    IF outcome = Ok THEN [l EXCEPT !.st = "done"]
    ELSE RetryOrGiveUp(NoteError(l, outcome))

\* putTranscriptInMetadata without the isChannelNotBroadcastingError test
MetaAnswered_NoException(l, outcome) ==
    IF outcome = Ok THEN [l EXCEPT !.st = "done"]
    ELSE RetryOrGiveUp(NoteError(l, outcome))

\* putTranscriptInMetadata: the answer of ivsClient.send
MetaAnswered(l, outcome) ==
    IF outcome = Ok THEN [l EXCEPT !.st = "done"]
    ELSE IF isChannelNotBroadcastingError(outcome)
         THEN [NoteError(l, outcome) EXCEPT !.st = "ignored"]
         ELSE RetryOrGiveUp(l)

----------------------------------------------------------------------------
(* Persistence *)

NewPersist ==
    [st |-> "idle", calls |-> 0, posts |-> 0, logs |-> 0, text |-> "", rejected |-> FALSE]

\* saveTranscriptToDB is called: the queue build returns at once, the other
\* builds post to the storage endpoint
saveTranscriptToDB(p, text) ==
    IF variant = "queue"
    THEN [p EXCEPT !.calls = @ + 1, !.text = text, !.st = "returned"]
    ELSE [p EXCEPT !.calls = @ + 1, !.posts = @ + 1, !.text = text, !.st = "inflight"]

\* axios.post answered, without the try/catch around it
PersistAnswered_NoCatch(p, ok) ==
    IF ok THEN [p EXCEPT !.st = "saved"]
    ELSE [p EXCEPT !.st = "failed", !.rejected = TRUE]

\* axios.post answered: a rejection is logged and absorbed
PersistAnswered(p, ok) ==
    IF ok THEN [p EXCEPT !.st = "saved"]
    ELSE [p EXCEPT !.st = "failed", !.logs = @ + 1]

----------------------------------------------------------------------------
(* Delivery tasks *)

NewTask(ev, slot, lang, result, raw, transcript) ==
    [ev |-> ev, slot |-> slot, lang |-> lang,
     resultId |-> result.ResultId, isPartial |-> result.IsPartial,
     raw |-> raw, src |-> transcript, text |-> "",
     tr |-> "none", trCalls |-> 0, trLogs |-> 0,
     started |-> FALSE, idLogs |-> 0,
     push |-> NewLoop, meta |-> NewLoop, persist |-> NewPersist]

\* sendTranscriptEvent without the `!firstResult.IsPartial` test
sendTranscriptEvent_NoPartialTest(t, transcript) ==
    LET t0 == [t EXCEPT !.started = TRUE, !.text = transcript] IN
    IF t.resultId = NoId
    THEN [t0 EXCEPT !.idLogs = @ + 1]
    ELSE LET t1 == IF variant = "queue"
                   THEN [t0 EXCEPT !.meta = FirstCall(@, transcript),
                                   !.persist = saveTranscriptToDB(@, transcript)]
                   ELSE t0
         IN [t1 EXCEPT !.push = FirstCall(@, transcript)]

\* sendTranscriptEvent awaiting putTranscriptInMetadata before it goes on
sendTranscriptEvent_AwaitsMetadata(t, transcript) ==
    LET t0 == [t EXCEPT !.started = TRUE, !.text = transcript] IN
    IF t.resultId = NoId
    THEN [t0 EXCEPT !.idLogs = @ + 1]
    ELSE IF variant = "queue" /\ ~t.isPartial
         THEN [t0 EXCEPT !.meta = FirstCall(@, transcript)]
         ELSE [t0 EXCEPT !.push = FirstCall(@, transcript)]

\* sendTranscriptEvent up to its first await, for the task t and the text given
sendTranscriptEvent(t, transcript) ==
    LET t0 == [t EXCEPT !.started = TRUE, !.text = transcript] IN
    IF t.resultId = NoId
    THEN [t0 EXCEPT !.idLogs = @ + 1]
    ELSE LET t1 == IF variant = "queue" /\ ~t.isPartial
                   THEN [t0 EXCEPT !.meta = FirstCall(@, transcript),
                                   !.persist = saveTranscriptToDB(@, transcript)]
                   ELSE t0
         IN [t1 EXCEPT !.push = FirstCall(@, transcript)]

\* the caller's own persistence call of the single-job builds
CallerSave(t, text) ==
    IF variant # "queue" /\ ~t.isPartial
    THEN [t EXCEPT !.persist = saveTranscriptToDB(@, text)]
    ELSE t

\* handleTranslation put off to a later turn of the event loop: the main loop
\* goes on before the translation call is issued
StartTranslation_Deferred(t) == [t EXCEPT !.tr = "deferred"]

\* handleTranslation up to `await translateClient.send(command)`
StartTranslation(t) == [t EXCEPT !.tr = "inflight", !.trCalls = @ + 1]

\* `response.TranslatedText` taken as it is, without `|| transcript`
TranslatedOrFallback_NoDefault(transcript, resp) ==
    IF resp.ok THEN resp.TranslatedText ELSE transcript

\* `response.TranslatedText || transcript`, and the catch that keeps transcript
TranslatedOrFallback(transcript, resp) ==
    IF resp.ok /\ resp.TranslatedText # "" THEN resp.TranslatedText ELSE transcript

\* the text handleTranslation gives to saveTranscriptToDB
HandleTranslationSaveText(transcript, translatedText) ==
    IF variant = "single" THEN transcript ELSE translatedText

\* handleTranslation after the translation call was answered
handleTranslationResume(t, resp) ==
    LET translatedText == TranslatedOrFallback(t.src, resp)
        t0 == [t EXCEPT !.tr = IF ~resp.ok THEN "failed"
                                ELSE IF resp.TranslatedText = "" THEN "empty" ELSE "ok",
                        !.trLogs = IF resp.ok THEN @ ELSE @ + 1]
    IN CallerSave(sendTranscriptEvent(t0, translatedText),
                  HandleTranslationSaveText(t.src, translatedText))

----------------------------------------------------------------------------
(* ResultClassifier: the guards of the main loop *)

\* the guards without `if (transcript)`
Classified_NoTextTest(event) ==
    /\ Len(event.Results) > 0
    /\ Len(event.Results[1].Alternatives) > 0

Classified(event) ==
    /\ Len(event.Results) > 0
    /\ Len(event.Results[1].Alternatives) > 0
    /\ event.Results[1].Alternatives[1].Transcript # ""

FirstResult(event) == event.Results[1]

FirstTranscript(event) == event.Results[1].Alternatives[1].Transcript

\* the text the main loop hands to delivery and to translation
ClassifiedText(event) ==
    IF variant = "queue" THEN Clean(FirstTranscript(event)) ELSE FirstTranscript(event)

\* the fan-out without the `fromLang !== toLang` tests
TranslationSlots_NoLanguageTest ==
    IF variant = "queue" THEN [k \in 1..Len(toLangs) |-> k] ELSE <<1>>

\* the list entries handleTranslation is called for, in call order
TranslationSlots ==
    IF ~needsTranslation THEN <<>>
    ELSE IF variant = "queue"
         THEN SelectSeq([k \in 1..Len(toLangs) |-> k], LAMBDA k : toLangs[k] # fromLang)
         ELSE <<1>>

\* the fan-out treating the source language as one more target: the
\* source-language delivery is started only when the target list names it
TasksOfEvent_SourceIfListed(ev, event) ==
    LET r == FirstResult(event)
        text == ClassifiedText(event)
        raw == FirstTranscript(event)
        source ==
            CallerSave(sendTranscriptEvent(NewTask(ev, 0, fromLang, r, raw, text), text), text)
        slots == TranslationSlots
    IN (IF \E k \in 1..Len(toLangs) : toLangs[k] = fromLang THEN <<source>> ELSE <<>>) \o
       [j \in 1..Len(slots) |->
           StartTranslation(NewTask(ev, slots[j], toLangs[slots[j]], r, raw, text))]

\* the tasks one classified event starts
TasksOfEvent(ev, event) ==
    LET r == FirstResult(event)
        text == ClassifiedText(event)
        raw == FirstTranscript(event)
        source ==
            CallerSave(sendTranscriptEvent(NewTask(ev, 0, fromLang, r, raw, text), text), text)
        slots == TranslationSlots
    IN <<source>> \o
       [j \in 1..Len(slots) |->
           StartTranslation(NewTask(ev, slots[j], toLangs[slots[j]], r, raw, text))]

----------------------------------------------------------------------------
(* cleanup(): kill the decoder, destroy every client that was constructed *)

Release(c) == IF c = "constructed" THEN "destroyed" ELSE c

\* cleanup() without the block for the IVS client
cleanup_ForgetsIvs(cs) == [k \in DOMAIN cs |-> IF k = "ivs" THEN cs[k] ELSE Release(cs[k])]

cleanup(cs) == [k \in DOMAIN cs |-> Release(cs[k])]

\* the destroy() calls and kill signals cleanup() makes: `if (client)` is true
\* for an object that was destroyed before, `!ffmpegProcess.killed` is not
DestroyCalls(cs, ds) ==
    [k \in DOMAIN ds |->
        IF k = "ffmpeg"
        THEN (IF cs[k] = "constructed" THEN ds[k] + 1 ELSE ds[k])
        ELSE (IF cs[k] # "absent" THEN ds[k] + 1 ELSE ds[k])]

\* `await cleanup()`
Teardown ==
    /\ clients' = cleanup(clients)
    /\ destroyCalls' = DestroyCalls(clients, destroyCalls)

ClientsAtStart ==
    [ffmpeg |-> "constructed", ivsChat |-> "constructed", transcribe |-> "constructed",
     translate |-> IF needsTranslation THEN "constructed" ELSE "absent",
     ivs |-> IF variant = "queue" THEN "constructed" ELSE "absent"]

----------------------------------------------------------------------------
(* The worker's life around a run is not followed in the pipeline and the
   segmenter specifications *)

NoExit == -1

ClientNames == {"ffmpeg", "ivsChat", "transcribe", "translate", "ivs"}

LifeOff ==
    /\ msgs = <<>>
    /\ returning = FALSE
    /\ shuttingDown = FALSE
    /\ signals = <<>>
    /\ exitCode = NoExit
    /\ exitPath = "none"
    /\ owner = [c \in ClientNames |-> 0]
    /\ destroyCalls = [c \in ClientNames |-> 0]

\* the argument of process.exit on each branch that calls it
ExitStatus_AlwaysFailure(path) == 1

ExitStatus(path) == IF path = "signal" THEN 0 ELSE 1

(* The segmenter is off in the pipeline specifications *)

SegOff ==
    /\ segReads = <<>>
    /\ segPulled = <<>>
    /\ segCur = -1
    /\ segOffset = 0
    /\ segChunks = <<>>
    /\ segAsked = 0
    /\ segPc = "off"

(* Init: a run that has reached Streaming: clients constructed, decoder
   spawned, recognition stream established. *)
InitRun(queueLists, singleLists, budget, cap) ==
    /\ variant \in Variants
    /\ fromLang = DefaultLang
    /\ toLangs \in (IF variant = "queue" THEN queueLists ELSE singleLists)
    /\ phase = "Streaming"
    /\ clients = ClientsAtStart
    /\ nEvents = 0
    /\ nDropped = 0
    /\ tasks = <<>>
    /\ failuresLeft = budget
    /\ taskCap = cap
    /\ SegOff
    /\ LifeOff

Init == InitRun(QueueTargetLists, SingleTargetLists, MaxFailures, MaxTasks)

\* runs with few delivery targets and more failures
InitRetry ==
    InitRun({<<"en-IE">>}, {<<"en-IE">>, <<"fr-FR">>}, MaxRetryFailures, MaxRetryTasks)

----------------------------------------------------------------------------
(* Actions of the pipeline *)

\* process.on("unhandledRejection"): a rejected delivery promise ends the process
Crashed ==
    \E i \in 1..Len(tasks) :
        tasks[i].push.rejected \/ tasks[i].meta.rejected \/ tasks[i].persist.rejected

\* the process has not exited
Alive == exitCode = NoExit /\ ~Crashed

\* the finally block of the worker loop: DeleteMessageCommand is sent when
\* messageReceiptHandle was set
Acknowledged(ms) ==
    IF ms # <<>> /\ ms[Len(ms)].handle
    THEN [ms EXCEPT ![Len(ms)].deletes = @ + 1]
    ELSE ms

\* the failure branches without their `return`: after the finally block the
\* worker loop goes on
RunEndsWith_NoReturn(ms, path, ret) ==
    /\ exitPath' = path
    /\ msgs' = Acknowledged(ms)
    /\ IF ms # <<>>
       THEN /\ phase' = "Acknowledging"
            /\ returning' = FALSE
            /\ UNCHANGED exitCode
       ELSE /\ phase' = "Terminated"
            /\ UNCHANGED returning
            /\ exitCode' = IF ret /\ variant # "queue" THEN ExitStatus(path) ELSE exitCode

\* a run is over, cleanup() done: the queue worker goes through its finally
\* block (and returns from main when `ret`), a single-job process exits on a
\* failure and stays alive, main returned, after the natural end
RunEndsWith(ms, path, ret) ==
    /\ exitPath' = path
    /\ msgs' = Acknowledged(ms)
    /\ IF ms # <<>>
       THEN /\ phase' = "Acknowledging"
            /\ returning' = ret
            /\ UNCHANGED exitCode
       ELSE /\ phase' = "Terminated"
            /\ UNCHANGED returning
            /\ exitCode' = IF ret /\ variant # "queue" THEN ExitStatus(path) ELSE exitCode

RunEnds(path, ret) == RunEndsWith(msgs, path, ret)

\* a delivery task with nothing in flight and no timer pending
Settled(t) ==
    /\ t.tr # "inflight"
    /\ t.push.st \notin {"inflight", "backoff"}
    /\ t.meta.st \notin {"inflight", "backoff"}
    /\ t.persist.st # "inflight"

\* the loop body awaiting sendTranscriptEvent and handleTranslation: the next
\* event is taken once every delivery started before has settled
ReceiveEvent_AwaitsDeliveries(event) ==
    /\ phase = "Streaming"
    /\ nEvents < MaxEvents
    /\ Alive
    /\ \A i \in 1..Len(tasks) : Settled(tasks[i])
    /\ Classified(event) => Len(tasks) + 1 + Len(TranslationSlots) <= taskCap
    /\ nEvents' = nEvents + 1
    /\ IF Classified(event)
       THEN /\ tasks' = tasks \o TasksOfEvent(nEvents + 1, event)
            /\ UNCHANGED nDropped
       ELSE /\ nDropped' = nDropped + 1
            /\ UNCHANGED tasks
    /\ UNCHANGED <<variant, fromLang, toLangs, phase, clients, failuresLeft, taskCap>>
    /\ UNCHANGED segVars
    /\ UNCHANGED lifeVars

\* one iteration of `for await (const event of TranscriptResultStream)`
ReceiveEvent(event) ==
    /\ phase = "Streaming"
    /\ nEvents < MaxEvents
    /\ Alive
    /\ Classified(event) => Len(tasks) + 1 + Len(TranslationSlots) <= taskCap
    /\ nEvents' = nEvents + 1
    /\ IF Classified(event)
       THEN /\ tasks' = tasks \o TasksOfEvent(nEvents + 1, event)
            /\ UNCHANGED nDropped
       ELSE /\ nDropped' = nDropped + 1
            /\ UNCHANGED tasks
    /\ UNCHANGED <<variant, fromLang, toLangs, phase, clients, failuresLeft, taskCap>>
    /\ UNCHANGED segVars
    /\ UNCHANGED lifeVars

\* the translation call of task i is answered
TranslateReturns(i, resp) ==
    /\ tasks[i].tr = "inflight"
    /\ Alive
    /\ tasks' = [tasks EXCEPT ![i] = handleTranslationResume(@, resp)]
    /\ UNCHANGED <<variant, fromLang, toLangs, phase, clients, nEvents, nDropped,
                   failuresLeft, taskCap>>
    /\ UNCHANGED segVars
    /\ UNCHANGED lifeVars

Budget(outcome) ==
    /\ outcome # Ok => failuresLeft > 0
    /\ failuresLeft' = IF outcome = Ok THEN failuresLeft ELSE failuresLeft - 1

\* the SendEvent call of task i is answered
PushReturns(i, outcome) ==
    /\ tasks[i].push.st = "inflight"
    /\ Alive
    /\ Budget(outcome)
    /\ tasks' = [tasks EXCEPT ![i].push = PushAnswered(@, outcome)]
    /\ UNCHANGED <<variant, fromLang, toLangs, phase, clients, nEvents, nDropped, taskCap>>
    /\ UNCHANGED segVars
    /\ UNCHANGED lifeVars

\* the backoff timer of the push loop of task i fires: next iteration
PushBackoffElapsed(i) ==
    /\ tasks[i].push.st = "backoff"
    /\ Alive
    /\ tasks' = [tasks EXCEPT ![i].push = IssueCall(@)]
    /\ UNCHANGED <<variant, fromLang, toLangs, phase, clients, nEvents, nDropped,
                   failuresLeft, taskCap>>
    /\ UNCHANGED segVars
    /\ UNCHANGED lifeVars

\* the PutMetadata call of task i is answered
MetaReturns(i, outcome) ==
    /\ tasks[i].meta.st = "inflight"
    /\ Alive
    /\ Budget(outcome)
    /\ tasks' = [tasks EXCEPT ![i].meta = MetaAnswered(@, outcome)]
    /\ UNCHANGED <<variant, fromLang, toLangs, phase, clients, nEvents, nDropped, taskCap>>
    /\ UNCHANGED segVars
    /\ UNCHANGED lifeVars

\* the backoff timer of the metadata loop of task i fires
MetaBackoffElapsed(i) ==
    /\ tasks[i].meta.st = "backoff"
    /\ Alive
    /\ tasks' = [tasks EXCEPT ![i].meta = IssueCall(@)]
    /\ UNCHANGED <<variant, fromLang, toLangs, phase, clients, nEvents, nDropped,
                   failuresLeft, taskCap>>
    /\ UNCHANGED segVars
    /\ UNCHANGED lifeVars

\* the storage endpoint answers the post of task i
PersistReturns(i, ok) ==
    /\ tasks[i].persist.st = "inflight"
    /\ Alive
    /\ tasks' = [tasks EXCEPT ![i].persist = PersistAnswered(@, ok)]
    /\ UNCHANGED <<variant, fromLang, toLangs, phase, clients, nEvents, nDropped,
                   failuresLeft, taskCap>>
    /\ UNCHANGED segVars
    /\ UNCHANGED lifeVars

\* the event stream closes: the loop ends and cleanup() runs
EndOfStream ==
    /\ phase = "Streaming"
    /\ Alive
    /\ Teardown
    /\ RunEnds("ended", FALSE)
    /\ UNCHANGED <<variant, fromLang, toLangs, nEvents, nDropped, tasks, failuresLeft, taskCap>>
    /\ UNCHANGED segVars
    /\ UNCHANGED <<shuttingDown, signals, owner>>

Next ==
    \/ \E event \in Events : ReceiveEvent(event)
    \/ \E i \in 1..Len(tasks) : \E resp \in TranslateResponses(tasks[i].lang) :
          TranslateReturns(i, resp)
    \/ \E i \in 1..Len(tasks) : \E outcome \in Outcomes : PushReturns(i, outcome)
    \/ \E i \in 1..Len(tasks) : PushBackoffElapsed(i)
    \/ \E i \in 1..Len(tasks) : \E outcome \in Outcomes : MetaReturns(i, outcome)
    \/ \E i \in 1..Len(tasks) : MetaBackoffElapsed(i)
    \/ \E i \in 1..Len(tasks) : \E ok \in BOOLEAN : PersistReturns(i, ok)
    \/ EndOfStream

Spec == Init /\ [][Next]_vars

SpecRetry == InitRetry /\ [][Next]_vars

\* a run of the queue build with one target language other than the source
\* language, long enough for two results to be in delivery at once
InitOrder ==
    /\ InitRun({<<"fr-FR">>}, {<<"fr-FR">>}, MaxOrderFailures, MaxOrderTasks)
    /\ variant = "queue"

\* saveTranscriptToDB of the queue build returns at once: no post to answer
NextOrder ==
    \/ \E event \in Events : ReceiveEvent(event)
    \/ \E i \in 1..Len(tasks) : \E resp \in TranslateResponses(tasks[i].lang) :
          TranslateReturns(i, resp)
    \/ \E i \in 1..Len(tasks) : \E outcome \in Outcomes : PushReturns(i, outcome)
    \/ \E i \in 1..Len(tasks) : PushBackoffElapsed(i)
    \/ \E i \in 1..Len(tasks) : \E outcome \in Outcomes : MetaReturns(i, outcome)
    \/ \E i \in 1..Len(tasks) : MetaBackoffElapsed(i)
    \/ EndOfStream

SpecOrder == InitOrder /\ [][NextOrder]_vars

----------------------------------------------------------------------------
(* The life of the process around a run: configuration, the queue worker's
   loop, construction of the clients, stream setup, signals, exit.  phase is
   the place main is at:
     "Start"          before the configuration test
     "Idle"           queue worker awaiting ReceiveMessageCommand
     "Sleeping"       queue worker in the 5 s wait after a polling error
     "Initializing"   clients constructed, decoder spawned, awaiting the
                      answer of StartStreamTranscriptionCommand
     "Streaming"      in the for-await loop
     "Acknowledging"  run over, cleanup() done, awaiting DeleteMessageCommand
     "Terminated"     main has returned or the process has exited *)

\* jobData.toLangs of a well-formed message
JobTargetLists == {<<"en-IE">>, <<"fr-FR">>}

\* what a received message can be: a job, a job with a required field
\* missing, a body JSON.parse rejects
MessageKinds == {"good", "missingData", "unparsable"}

Message(kind) == [kind |-> kind, handle |-> kind # "unparsable", deletes |-> 0]

\* the run a client object constructed now belongs to
RunId(ms) == IF variant = "queue" THEN Len(ms) ELSE 1

\* main spawning the decoder before it constructs the clients
ConstructionOrder_DecoderFirst(langs) ==
    LET all == IF variant = "queue"
               THEN <<"ffmpeg", "ivsChat", "ivs", "transcribe", "translate">>
               ELSE <<"ffmpeg", "ivsChat", "transcribe", "translate">>
    IN SelectSeq(all, LAMBDA c : c # "translate" \/ \E k \in 1..Len(langs) : langs[k] # fromLang)

\* the constructors main calls, in order, and setupFFmpeg after them
ConstructionOrder(langs) ==
    LET all == IF variant = "queue"
               THEN <<"ivsChat", "ivs", "transcribe", "translate", "ffmpeg">>
               ELSE <<"ivsChat", "transcribe", "translate", "ffmpeg">>
    IN SelectSeq(all, LAMBDA c : c # "translate" \/ \E k \in 1..Len(langs) : langs[k] # fromLang)

\* where construction can throw; setupFFmpeg throws in the queue build only,
\* where it signs the playback token
FailPoints(langs) ==
    ({"none"} \cup { ConstructionOrder(langs)[k] : k \in 1..Len(ConstructionOrder(langs)) })
        \ (IF variant = "queue" THEN {} ELSE {"ffmpeg"})

\* the objects constructed before the constructor failAt throws
Built(langs, failAt) ==
    LET order == ConstructionOrder(langs) IN
    { order[k] : k \in { j \in 1..Len(order) :
                           failAt = "none" \/ \E f \in (j + 1)..Len(order) : order[f] = failAt } }

\* `client = new Client(...)`: the variable holds a new object of this run
Constructed_KeepExisting(own, c, run) == IF own[c] # 0 THEN own[c] ELSE run

Constructed(own, c, run) == run

\* from the first constructor to `await setupTranscription(...)`, or to the
\* catch block of the constructor that throws
BeginRun(ms, langs, failAt) ==
    LET built == Built(langs, failAt)
        own == [c \in ClientNames |->
                   IF c \in built THEN Constructed(owner, c, RunId(ms)) ELSE owner[c]]
        fresh == { c \in built : own[c] # owner[c] \/ owner[c] = 0 }
        cs == [c \in ClientNames |-> IF c \in fresh THEN "constructed" ELSE clients[c]]
        dc == [c \in ClientNames |-> IF c \in fresh THEN 0 ELSE destroyCalls[c]]
    IN /\ owner' = own
       /\ IF failAt = "none"
          THEN /\ clients' = cs
               /\ destroyCalls' = dc
               /\ phase' = "Initializing"
               /\ msgs' = ms
               /\ exitPath' = "none"
               /\ UNCHANGED <<returning, exitCode>>
          ELSE /\ clients' = cleanup(cs)
               /\ destroyCalls' = DestroyCalls(cs, dc)
               /\ RunEndsWith(ms, IF failAt = "ffmpeg" THEN "setupFailed" ELSE "constructFailed",
                              TRUE)

\* a required environment variable is missing: process.exit(1)
ConfigMissing ==
    /\ phase = "Start"
    /\ Alive
    /\ phase' = "Terminated"
    /\ exitPath' = "configMissing"
    /\ exitCode' = ExitStatus("configMissing")
    /\ UNCHANGED pipeVars_but_phase
    /\ UNCHANGED segVars
    /\ UNCHANGED <<msgs, returning, shuttingDown, signals, owner, destroyCalls>>

\* single-job builds: main from the configuration test to its first await
StartSingle(failAt) ==
    /\ variant # "queue"
    /\ phase = "Start"
    /\ Alive
    /\ failAt \in FailPoints(toLangs)
    /\ BeginRun(msgs, toLangs, failAt)
    /\ UNCHANGED <<variant, fromLang, toLangs, nEvents, nDropped, tasks, failuresLeft, taskCap>>
    /\ UNCHANGED segVars
    /\ UNCHANGED <<shuttingDown, signals>>

\* queue build: main from the configuration test to the first receive
StartWorker ==
    /\ variant = "queue"
    /\ phase = "Start"
    /\ Alive
    /\ phase' = "Idle"
    /\ UNCHANGED pipeVars_but_phase
    /\ UNCHANGED segVars
    /\ UNCHANGED lifeVars

\* the receive returns a message: the worker loop up to its next await
ReceiveMessage(kind, langs, failAt) ==
    /\ variant = "queue"
    /\ phase = "Idle"
    /\ Alive
    /\ Len(msgs) < MaxMessages
    /\ LET ms == Append(msgs, Message(kind)) IN
       CASE kind = "unparsable" ->
              /\ langs = toLangs /\ failAt = "none"
              /\ phase' = "Sleeping"
              /\ msgs' = ms
              /\ UNCHANGED <<toLangs, clients, returning, exitCode, exitPath, owner, destroyCalls>>
         [] kind = "missingData" ->
              /\ langs = toLangs /\ failAt = "none"
              /\ Teardown
              /\ RunEndsWith(ms, "jobDataMissing", TRUE)
              /\ UNCHANGED <<toLangs, owner>>
         [] kind = "good" ->
              /\ failAt \in FailPoints(langs)
              /\ toLangs' = langs
              /\ BeginRun(ms, langs, failAt)
    /\ UNCHANGED <<variant, fromLang, nEvents, nDropped, tasks, failuresLeft, taskCap>>
    /\ UNCHANGED segVars
    /\ UNCHANGED <<shuttingDown, signals>>

\* `while (!shuttingDown)` after the finally block
AfterIteration == IF shuttingDown THEN "Terminated" ELSE "Idle"

\* the receive returns no message
PollEmpty ==
    /\ variant = "queue"
    /\ phase = "Idle"
    /\ Alive
    /\ phase' = AfterIteration
    /\ UNCHANGED pipeVars_but_phase
    /\ UNCHANGED segVars
    /\ UNCHANGED lifeVars

\* the receive is rejected and nothing catches it: main() is rejected and the
\* unhandledRejection handler exits the process
PollFails_Uncaught ==
    /\ variant = "queue"
    /\ phase = "Idle"
    /\ Alive
    /\ phase' = "Terminated"
    /\ exitCode' = ExitStatus("unhandledRejection")
    /\ UNCHANGED pipeVars_but_phase
    /\ UNCHANGED segVars
    /\ UNCHANGED <<msgs, returning, shuttingDown, signals, exitPath, owner, destroyCalls>>

\* the receive is rejected: catch (pollingError), then the 5 s wait
PollFails ==
    /\ variant = "queue"
    /\ phase = "Idle"
    /\ Alive
    /\ phase' = "Sleeping"
    /\ UNCHANGED pipeVars_but_phase
    /\ UNCHANGED segVars
    /\ UNCHANGED lifeVars

\* the 5 s wait is over: finally without a receipt handle, next iteration
SleepElapsed ==
    /\ phase = "Sleeping"
    /\ Alive
    /\ phase' = AfterIteration
    /\ UNCHANGED pipeVars_but_phase
    /\ UNCHANGED segVars
    /\ UNCHANGED lifeVars

\* the catch block issuing the recognition call again instead of giving up
CriticalError_Reconnect(path) ==
    /\ phase' = "Initializing"
    /\ exitPath' = path
    /\ UNCHANGED <<clients, destroyCalls, msgs, returning, exitCode>>

\* the catch block of the main try: "A critical error occurred in the main
\* process", cleanup(), then return (queue build) or process.exit(1)
CriticalError(path) ==
    /\ Teardown
    /\ RunEnds(path, TRUE)

\* StartStreamTranscriptionCommand is answered: with a result stream, without
\* one, or with a rejection
SetupReturns(answer) ==
    /\ phase = "Initializing"
    /\ Alive
    /\ IF answer = "stream"
       THEN /\ phase' = "Streaming"
            /\ UNCHANGED <<clients, msgs, returning, exitCode, exitPath, destroyCalls>>
       ELSE CriticalError("setupFailed")
    /\ UNCHANGED <<variant, fromLang, toLangs, nEvents, nDropped, tasks, failuresLeft, taskCap>>
    /\ UNCHANGED segVars
    /\ UNCHANGED <<shuttingDown, signals, owner>>

\* the event stream throws: the catch block of the main try
StreamFails ==
    /\ phase = "Streaming"
    /\ Alive
    /\ CriticalError("streamFailed")
    /\ UNCHANGED <<variant, fromLang, toLangs, nEvents, nDropped, tasks, failuresLeft, taskCap>>
    /\ UNCHANGED segVars
    /\ UNCHANGED <<shuttingDown, signals, owner>>

\* DeleteMessageCommand is answered; a rejection leaves main() rejected, which
\* the unhandledRejection handler turns into process.exit(1)
DeleteReturns(ok) ==
    /\ phase = "Acknowledging"
    /\ Alive
    /\ IF ok
       THEN /\ phase' = IF returning THEN "Terminated" ELSE AfterIteration
            /\ UNCHANGED exitCode
       ELSE /\ phase' = "Terminated"
            /\ exitCode' = ExitStatus("unhandledRejection")
    /\ UNCHANGED pipeVars_but_phase
    /\ UNCHANGED segVars
    /\ UNCHANGED <<msgs, returning, shuttingDown, signals, exitPath, owner, destroyCalls>>

\* SIGINT or SIGTERM: the handler main registered
Signal ==
    /\ phase \notin {"Start", "Terminated"}
    /\ Alive
    /\ Len(signals) < MaxSignals
    /\ signals' = Append(signals, phase)
    /\ Teardown
    /\ IF variant = "queue"
       THEN /\ shuttingDown' = TRUE
            /\ UNCHANGED <<phase, exitCode, exitPath>>
       ELSE /\ phase' = "Terminated"
            /\ exitPath' = "signal"
            /\ exitCode' = ExitStatus("signal")
            /\ UNCHANGED shuttingDown
    /\ UNCHANGED <<variant, fromLang, toLangs, nEvents, nDropped, tasks, failuresLeft, taskCap>>
    /\ UNCHANGED segVars
    /\ UNCHANGED <<msgs, returning, owner>>

\* the decoder exits by itself: its `killed` flag stays false
FfmpegExits ==
    /\ phase = "Streaming"
    /\ Alive
    /\ clients.ffmpeg = "constructed"
    /\ clients' = [clients EXCEPT !.ffmpeg = "exited"]
    /\ UNCHANGED <<variant, fromLang, toLangs, phase, nEvents, nDropped, tasks,
                   failuresLeft, taskCap>>
    /\ UNCHANGED segVars
    /\ UNCHANGED lifeVars

InitLife ==
    /\ variant \in Variants
    /\ fromLang = DefaultLang
    /\ toLangs \in (IF variant = "queue" THEN {<<"en-IE">>} ELSE SingleTargetLists)
    /\ phase = "Start"
    /\ clients = [c \in ClientNames |-> "absent"]
    /\ nEvents = 0
    /\ nDropped = 0
    /\ tasks = <<>>
    /\ failuresLeft = MaxLifeFailures
    /\ taskCap = MaxLifeTasks
    /\ SegOff
    /\ LifeOff

NextLife ==
    \/ ConfigMissing
    \/ \E failAt \in ClientNames \cup {"none"} : StartSingle(failAt)
    \/ StartWorker
    \/ \E kind \in MessageKinds : \E langs \in JobTargetLists :
          \E failAt \in ClientNames \cup {"none"} : ReceiveMessage(kind, langs, failAt)
    \/ PollEmpty
    \/ PollFails
    \/ SleepElapsed
    \/ \E answer \in {"stream", "noStream", "throws"} : SetupReturns(answer)
    \/ StreamFails
    \/ \E ok \in BOOLEAN : DeleteReturns(ok)
    \/ Signal
    \/ FfmpegExits
    \/ \E event \in Events : ReceiveEvent(event)
    \/ \E i \in 1..Len(tasks) : \E outcome \in Outcomes : PushReturns(i, outcome)
    \/ \E i \in 1..Len(tasks) : PushBackoffElapsed(i)
    \/ \E i \in 1..Len(tasks) : \E outcome \in Outcomes : MetaReturns(i, outcome)
    \/ \E i \in 1..Len(tasks) : MetaBackoffElapsed(i)
    \/ \E i \in 1..Len(tasks) : \E ok \in BOOLEAN : PersistReturns(i, ok)
    \/ EndOfStream

SpecLife == InitLife /\ [][NextLife]_vars

----------------------------------------------------------------------------
(* ChunkSegmenter: audioStreamGenerator.  A chunk is the slice [from, to) of
   the read-th source read; a byte is a pair (read, position). *)

\* `Math.min(offset + MAX_CHUNK_SIZE, chunk.length)`
\* the slice end one byte past the ceiling
SliceEnd_OneTooMany(offset, length) == Min(offset + MAX_CHUNK_SIZE + 1, length)

\* the slice end without the Math.min: the rest of the read
SliceEnd_NoMin(offset, length) == length

\* `const end = Math.min(offset + MAX_CHUNK_SIZE, chunk.length)`
SliceEnd(offset, length) == Min(offset + MAX_CHUNK_SIZE, length)

\* `chunk.slice(offset, end)` of the read-th source read
Slice(read, offset, end) == [read |-> read, from |-> offset, to |-> end]

ChunkLen(c) == c.to - c.from

\* The bytes of a sequence of slices, in order, in a normal form: empty slices
\* dropped, slices that continue one another joined.
RECURSIVE Bytes(_)
Bytes(cs) ==
    IF cs = <<>> THEN <<>>
    ELSE LET rest == Bytes(Tail(cs))
             c == Head(cs)
         IN IF c.to <= c.from THEN rest
            ELSE IF rest # <<>> /\ rest[1].read = c.read /\ rest[1].from = c.to
                 THEN <<[read |-> c.read, from |-> c.from, to |-> rest[1].to]>> \o Tail(rest)
                 ELSE <<c>> \o rest

\* the source reads pulled so far, whole, as slices
WholeReads(lengths) == [i \in 1..Len(lengths) |-> Slice(i, 0, lengths[i])]

InitSeg ==
    /\ variant = "queue"
    /\ fromLang = DefaultLang
    /\ toLangs = <<>>
    /\ phase = "Idle"
    /\ clients = [ffmpeg |-> "constructed", ivsChat |-> "absent", transcribe |-> "constructed",
                  translate |-> "absent", ivs |-> "absent"]
    /\ nEvents = 0
    /\ nDropped = 0
    /\ tasks = <<>>
    /\ failuresLeft = 0
    /\ taskCap = 0
    /\ \E n \in 0..MaxReads : segReads \in [1..n -> ReadSizes]
    /\ segPulled = <<>>
    /\ segCur = -1
    /\ segOffset = 0
    /\ segChunks = <<>>
    /\ segAsked = 0
    /\ segPc = "pull"
    /\ LifeOff

\* a generator that runs on without being asked
Outstanding_Always == TRUE

\* an async generator runs only while a next() of its consumer is unanswered;
\* at `yield` it answers the request and is suspended
Outstanding == segAsked > Len(segChunks)

\* the consumer, which takes one chunk at a time, calls next()
SegNext ==
    /\ segPc \in {"pull", "yielded"}
    /\ ~Outstanding
    /\ segAsked' = segAsked + 1
    /\ UNCHANGED <<segReads, segPulled, segCur, segOffset, segChunks, segPc>>
    /\ UNCHANGED pipeVars
    /\ UNCHANGED lifeVars

\* `for await (const chunk of audioStream)`: the next read arrives; `let offset = 0`
SegPull ==
    /\ segPc = "pull"
    /\ Outstanding
    /\ segReads # <<>>
    /\ segCur' = Head(segReads)
    /\ segReads' = Tail(segReads)
    /\ segPulled' = Append(segPulled, Head(segReads))
    /\ segOffset' = 0
    /\ segPc' = "slice"
    /\ UNCHANGED <<segChunks, segAsked>>
    /\ UNCHANGED pipeVars
    /\ UNCHANGED lifeVars

\* `while (offset < chunk.length)` holds: `end` is computed and the chunk is
\* yielded
SegYield ==
    /\ segPc = "slice"
    /\ Outstanding
    /\ segOffset < segCur
    /\ segChunks' = Append(segChunks,
                           Slice(Len(segPulled), segOffset, SliceEnd(segOffset, segCur)))
    /\ segPc' = "yielded"
    /\ UNCHANGED <<segReads, segPulled, segCur, segOffset, segAsked>>
    /\ UNCHANGED pipeVars
    /\ UNCHANGED lifeVars

\* the generator is resumed after the yield: `offset = end`
SegResume ==
    /\ segPc = "yielded"
    /\ Outstanding
    /\ segOffset' = SliceEnd(segOffset, segCur)
    /\ segPc' = "slice"
    /\ UNCHANGED <<segReads, segPulled, segCur, segChunks, segAsked>>
    /\ UNCHANGED pipeVars
    /\ UNCHANGED lifeVars

\* the while loop ends: back to the source
SegReadDone ==
    /\ segPc = "slice"
    /\ Outstanding
    /\ ~(segOffset < segCur)
    /\ segPc' = "pull"
    /\ UNCHANGED <<segReads, segPulled, segCur, segOffset, segChunks, segAsked>>
    /\ UNCHANGED pipeVars
    /\ UNCHANGED lifeVars

\* the source ends: the generator returns
SegEnd ==
    /\ segPc = "pull"
    /\ Outstanding
    /\ segReads = <<>>
    /\ segPc' = "done"
    /\ UNCHANGED <<segReads, segPulled, segCur, segOffset, segChunks, segAsked>>
    /\ UNCHANGED pipeVars
    /\ UNCHANGED lifeVars

NextSeg == SegNext \/ SegPull \/ SegYield \/ SegResume \/ SegReadDone \/ SegEnd

SpecSeg == InitSeg /\ [][NextSeg]_vars

----------------------------------------------------------------------------
(* Properties of the delivery pipeline *)

TaskIds == 1..Len(tasks)

HasId(t) == t.resultId # NoId

\* the delivery tasks of event ev in language lang
TasksFor(ev, lang) == { i \in TaskIds : tasks[i].ev = ev /\ tasks[i].lang = lang }

\* how often metadata-attach, persistence and translation were triggered for
\* (ev, lang) by the first n tasks
RECURSIVE MetaTriggers(_, _, _)
MetaTriggers(n, ev, lang) ==
    IF n = 0 THEN 0
    ELSE MetaTriggers(n - 1, ev, lang)
         + (IF tasks[n].ev = ev /\ tasks[n].lang = lang /\ tasks[n].meta.st # "idle"
            THEN 1 ELSE 0)

RECURSIVE PersistTriggers(_, _, _)
PersistTriggers(n, ev, lang) ==
    IF n = 0 THEN 0
    ELSE PersistTriggers(n - 1, ev, lang)
         + (IF tasks[n].ev = ev /\ tasks[n].lang = lang THEN tasks[n].persist.calls ELSE 0)

RECURSIVE TranslateCalls(_, _, _)
TranslateCalls(n, ev, lang) ==
    IF n = 0 THEN 0
    ELSE TranslateCalls(n - 1, ev, lang)
         + (IF tasks[n].ev = ev /\ tasks[n].lang = lang THEN tasks[n].trCalls ELSE 0)

\* C1: a partial result that has a result id gets the live-update push in every
\* language it is delivered in, and neither metadata-attach nor persistence.
C1_PartialPushOnly ==
    \A i \in TaskIds :
        (tasks[i].isPartial /\ HasId(tasks[i]) /\ tasks[i].started) =>
            /\ tasks[i].push.calls >= 1
            /\ tasks[i].meta.calls = 0
            /\ tasks[i].meta.st = "idle"
            /\ tasks[i].persist.calls = 0

\* a partial result was delivered in the source language and, after its
\* translation, in a target language
C1_Witness ==
    \E i, j \in TaskIds :
        /\ tasks[i].ev = tasks[j].ev
        /\ tasks[i].isPartial /\ HasId(tasks[i])
        /\ tasks[i].slot = 0 /\ tasks[i].push.st = "done"
        /\ tasks[j].slot > 0 /\ tasks[j].started /\ tasks[j].push.st = "done"

\* C2: in the queue-driven build, a final result with a result id triggers
\* metadata-attach exactly once and persistence exactly once per (result,
\* language) pair it is delivered in.
C2_OncePerResultAndLanguage ==
    variant = "queue" =>
        \A i \in TaskIds :
            (~tasks[i].isPartial /\ HasId(tasks[i]) /\ tasks[i].started) =>
                /\ MetaTriggers(Len(tasks), tasks[i].ev, tasks[i].lang) = 1
                /\ PersistTriggers(Len(tasks), tasks[i].ev, tasks[i].lang) = 1

\* the target list names no language twice
DistinctTargets == \A k, m \in 1..Len(toLangs) : toLangs[k] = toLangs[m] => k = m

\* C2 for target lists without a repeated entry, where it holds
C2_DistinctTargetsOnly == DistinctTargets => C2_OncePerResultAndLanguage

\* a final result was delivered in the source language and in a translated one,
\* each with metadata-attach and persistence
C2_Reached ==
    \E i, j \in TaskIds :
        /\ variant = "queue" /\ toLangs = <<"en-IE", "fr-FR">>
        /\ tasks[i].ev = tasks[j].ev /\ ~tasks[i].isPartial /\ HasId(tasks[i])
        /\ tasks[i].lang = "en-IE" /\ tasks[i].text = "hello ****"
        /\ tasks[j].lang = "fr-FR" /\ tasks[j].text = "bonjour"
        /\ tasks[i].meta.st = "done" /\ tasks[j].meta.st = "done"
        /\ tasks[i].persist.calls = 1 /\ tasks[j].persist.calls = 1
        /\ Len(tasks) = 2

\* C3: a final result without a result id gets no delivery action at all, in
\* any language: no push, no metadata-attach, no persistence.
C3_NoDeliveryWithoutId ==
    \A i \in TaskIds :
        (~tasks[i].isPartial /\ ~HasId(tasks[i])) =>
            /\ tasks[i].push.calls = 0
            /\ tasks[i].meta.calls = 0
            /\ tasks[i].persist.calls = 0

\* C3 restricted to the queue-driven build, where it holds
C3_QueueOnly == variant = "queue" => C3_NoDeliveryWithoutId

\* the two retry loops of task i
LoopsOf(i) == {tasks[i].push, tasks[i].meta}

\* some classified event can still be taken by the main loop
FinalEvent == [Results |-> <<Result("r1", FALSE, <<Alternative("hello damn")>>)>>]
RoomForEvent ==
    /\ phase = "Streaming"
    /\ nEvents < MaxEvents
    /\ Len(tasks) + 1 + Len(TranslationSlots) <= taskCap

\* C4: a publish call (push or metadata-attach) that fails on attempts 1 and 2
\* and succeeds on attempt 3 has made exactly 3 remote calls, with a backoff
\* wait between consecutive calls, and ends without an error for its caller.
C4_TwoFailuresThenSuccess ==
    /\ ~Crashed
    /\ \A i \in TaskIds : \A l \in LoopsOf(i) :
          /\ (l.st \in {"inflight", "done"}) => l.calls = l.waits + 1
          /\ (l.st = "done" /\ l.attempts = 2) =>
                /\ l.calls = 3
                /\ l.waits = 2
                /\ Len(l.delays) = 2
                /\ l.giveUps = 0
                /\ ~l.rejected

\* a push succeeded at its third call while the metadata-attach of the same
\* result had failed as well
C4_Witness ==
    \E i \in TaskIds :
        /\ tasks[i].push.st = "done" /\ tasks[i].push.attempts = 2
        /\ tasks[i].meta.attempts >= 1

\* C5: a publish call that fails on all 3 attempts has made exactly 3 remote
\* calls, never a 4th, logs that it gives up, and leaves the run streaming:
\* the main loop still takes and delivers the next result.
C5_GiveUpAfterThree ==
    /\ ~Crashed
    /\ \A i \in TaskIds : \A l \in LoopsOf(i) :
          /\ l.calls <= maxAttempts
          /\ l.attempts >= maxAttempts => l.st = "gaveUp"
          /\ l.st = "gaveUp" =>
                /\ l.calls = 3
                /\ l.attempts = 3
                /\ l.giveUps = 1
                /\ l.logs = 3
                /\ ~l.rejected
    /\ RoomForEvent => ENABLED ReceiveEvent(FinalEvent)

\* a push has given up and the run is still streaming, with an event to come
C5_Witness ==
    \E i \in TaskIds :
        /\ tasks[i].push.st = "gaveUp"
        /\ RoomForEvent

TranslationTasks == { i \in TaskIds : tasks[i].slot > 0 }

\* the translation call was answered with a failure or with no text
FellBack(t) == t.tr \in {"failed", "empty"}

\* what handleTranslation does for one list entry: one call, never a second,
\* and the source text delivered when the call gave no translation
OneCallAndFallback(i) ==
    /\ tasks[i].trCalls = 1
    /\ tasks[i].lang # fromLang
    /\ tasks[i].tr = "failed" <=> tasks[i].trLogs = 1
    /\ tasks[i].started <=> tasks[i].tr # "inflight"
    /\ (tasks[i].started /\ FellBack(tasks[i])) => tasks[i].text = tasks[i].src
    /\ (tasks[i].started /\ tasks[i].tr = "ok") =>
          tasks[i].text = TranslatedTextOf(tasks[i].lang)
    /\ (tasks[i].started /\ HasId(tasks[i])) =>
          /\ tasks[i].push.calls >= 1
          /\ tasks[i].push.text = tasks[i].text

\* C8: for every classified result and every target language other than the
\* source language the translation call is made exactly once, never retried;
\* when it fails or returns no text the source text is delivered for that
\* target, and the other languages are not affected.
C8_TranslatedOncePerTarget ==
    \A i \in TranslationTasks :
        /\ TranslateCalls(Len(tasks), tasks[i].ev, tasks[i].lang) = 1
        /\ OneCallAndFallback(i)

\* C8 read per entry of the target list: each entry other than the source
\* language gets one call and the fallback
C8_OncePerListEntry ==
    \A i \in TranslationTasks : OneCallAndFallback(i)

\* a translation failed, its target got the source text, and another target
\* of the same result got its translation
C8_Reached ==
    \E i, j \in TranslationTasks :
        /\ tasks[i].ev = tasks[j].ev
        /\ tasks[i].tr = "failed" /\ tasks[i].push.text = tasks[i].src
        /\ tasks[j].tr = "ok" /\ tasks[j].push.text = TranslatedTextOf(tasks[j].lang)

\* C9: when the only target language is the source language, every classified
\* result is delivered in that language with the text the main loop classified,
\* and the translation call is never made.
C9_SameLanguagePassthrough ==
    toLangs = <<fromLang>> =>
        /\ clients.translate = "absent"
        /\ Len(tasks) = nEvents - nDropped
        /\ \A i \in TaskIds :
              /\ tasks[i].slot = 0
              /\ tasks[i].lang = fromLang
              /\ tasks[i].trCalls = 0
              /\ tasks[i].tr = "none"
              /\ tasks[i].started
              /\ tasks[i].text = tasks[i].src
              /\ tasks[i].src = (IF variant = "queue" THEN Clean(tasks[i].raw) ELSE tasks[i].raw)
              /\ HasId(tasks[i]) =>
                    /\ tasks[i].push.calls >= 1
                    /\ tasks[i].push.text = tasks[i].src

\* two results were delivered in the source language, the only target
C9_Witness ==
    /\ toLangs = <<fromLang>>
    /\ \E i, j \in TaskIds :
          /\ tasks[i].ev # tasks[j].ev
          /\ tasks[i].push.st = "done" /\ tasks[i].isPartial
          /\ tasks[j].push.st = "done" /\ ~tasks[j].isPartial

----------------------------------------------------------------------------
(* Properties of the segmenter *)

\* the part of the source read so far that the while loop has gone through
ReadSoFar ==
    IF segPc \in {"slice", "yielded"}
    THEN WholeReads(SubSeq(segPulled, 1, Len(segPulled) - 1))
             \o <<Slice(Len(segPulled), 0,
                        IF segPc = "yielded" THEN SliceEnd(segOffset, segCur) ELSE segOffset)>>
    ELSE WholeReads(segPulled)

\* C10: the chunks the segmenter emits concatenate, in order, to the source
\* reads, and every chunk has a length in (0, MAX_CHUNK_SIZE]; an empty read
\* yields no chunk.
C10_ChunksReproduceReads ==
    /\ \A k \in 1..Len(segChunks) :
          /\ 0 < ChunkLen(segChunks[k])
          /\ ChunkLen(segChunks[k]) <= MAX_CHUNK_SIZE
    /\ Bytes(segChunks) = Bytes(ReadSoFar)
    /\ segPc = "done" =>
          /\ segReads = <<>>
          /\ Bytes(segChunks) = Bytes(WholeReads(segPulled))

\* the source ended after an empty read and a read of more than two chunks
C10_Witness ==
    /\ segPc = "done"
    /\ \E a, b \in 1..Len(segPulled) :
          /\ segPulled[a] = 0
          /\ segPulled[b] > 2 * MAX_CHUNK_SIZE
          /\ \E k \in 1..Len(segChunks) :
                /\ segChunks[k].read = b
                /\ segChunks[k].from = 2 * MAX_CHUNK_SIZE

\* the lengths of a sequence of chunks
ChunkLens(cs) == [k \in 1..Len(cs) |-> ChunkLen(cs[k])]

\* the chunks cut from the i-th source read, in order
ChunksOfRead(i) == SelectSeq(segChunks, LAMBDA c : c.read = i)

RECURSIVE TotalBytes(_)
TotalBytes(lengths) ==
    IF lengths = <<>> THEN 0 ELSE Head(lengths) + TotalBytes(Tail(lengths))

\* C11 as stated: 50,000 bytes, however the source delivers them, come out as
\* a chunk of 32,000 and a chunk of 18,000; in general every chunk but the
\* last of the stream has MAX_CHUNK_SIZE bytes.
C11_FullChunksAcrossReads ==
    segPc = "done" =>
        /\ TotalBytes(segPulled) = 50000 => ChunkLens(segChunks) = <<32000, 18000>>
        /\ \A k \in 1..(Len(segChunks) - 1) : ChunkLen(segChunks[k]) = MAX_CHUNK_SIZE

\* C11 amended: one source read of 50,000 bytes comes out as a chunk of 32,000
\* and a chunk of 18,000; every chunk but the last of its read has
\* MAX_CHUNK_SIZE bytes, and no chunk holds bytes of two reads.
C11_FullChunksWithinRead ==
    /\ \A k \in 1..Len(segChunks) :
          /\ segChunks[k].read \in 1..Len(segPulled)
          /\ segChunks[k].from % MAX_CHUNK_SIZE = 0
          /\ \/ ChunkLen(segChunks[k]) = MAX_CHUNK_SIZE
             \/ segChunks[k].to = segPulled[segChunks[k].read]
    /\ segPc = "done" =>
          \A i \in 1..Len(segPulled) :
              segPulled[i] = 50000 => ChunkLens(ChunksOfRead(i)) = <<32000, 18000>>

\* the source ended after delivering 50,000 bytes in one read
C11_Witness ==
    /\ segPc = "done"
    /\ \E i \in 1..Len(segPulled) :
          /\ segPulled[i] = 50000
          /\ Len(ChunksOfRead(i)) = 2
          /\ TotalBytes(segPulled) = 50000

----------------------------------------------------------------------------
(* Properties of the classifier *)

\* what the design drops: no result, no alternative in the first result, or
\* no text in its first alternative
LacksText(event) ==
    \/ event.Results = <<>>
    \/ event.Results[1].Alternatives = <<>>
    \/ event.Results[1].Alternatives[1].Transcript = ""

\* the tasks started by the step
NewTasks == SubSeq(tasks', Len(tasks) + 1, Len(tasks'))

\* C12: an event with no result, no alternative in its first result, or no
\* text in its first alternative starts no translation and no delivery and
\* leaves the run streaming; any other event is delivered with the text of
\* the first alternative of its first result.
C12_DropsEventsWithoutText ==
    [][\A event \in Events : ReceiveEvent(event) =>
          IF LacksText(event)
          THEN /\ tasks' = tasks
               /\ phase' = "Streaming"
               /\ ~Crashed'
          ELSE /\ Len(tasks') > Len(tasks)
               /\ \A k \in 1..Len(NewTasks) :
                     NewTasks[k].raw = event.Results[1].Alternatives[1].Transcript
      ]_vars

\* the first event was dropped and the second one was delivered
C12_Witness ==
    /\ nDropped = 1
    /\ nEvents = 2
    /\ \E i \in TaskIds : tasks[i].ev = 2 /\ tasks[i].push.st = "done"

----------------------------------------------------------------------------
(* Properties of the life of the process *)

\* the remote calls the delivery tasks have issued so far
RECURSIVE DeliveryCalls(_)
DeliveryCalls(ts) ==
    IF ts = <<>> THEN 0
    ELSE Head(ts).push.calls + Head(ts).meta.calls + Head(ts).persist.calls
         + Head(ts).trCalls + DeliveryCalls(Tail(ts))

\* a shutdown signal arrived while main was in the for-await loop
SignalledMidStream == \E k \in 1..Len(signals) : signals[k] = "Streaming"

\* no decoder runs unsignalled and no client object is left undestroyed
Released ==
    \A c \in ClientNames :
        /\ clients[c] # "constructed"
        /\ (clients[c] = "destroyed") => destroyCalls[c] >= 1

\* C13, first half: at a shutdown signal mid-stream the decoder is terminated
\* and every constructed client is released
C13_ReleasedAtSignal == SignalledMidStream => Released

\* C13: when a shutdown signal arrives mid-stream the decoder is terminated,
\* every constructed client is released, and from then on no recognition
\* event is classified and no delivery call is made.
C13_NothingAfterSignal ==
    /\ [](SignalledMidStream => Released)
    /\ [][SignalledMidStream =>
            /\ nEvents' = nEvents
            /\ DeliveryCalls(tasks') = DeliveryCalls(tasks)]_vars

\* C13 in the single-job builds, whose handler exits the process
C13_SingleJobOnly ==
    [][(variant # "queue" /\ SignalledMidStream) =>
            /\ nEvents' = nEvents
            /\ DeliveryCalls(tasks') = DeliveryCalls(tasks)]_vars

\* the signal came mid-stream while a push was waiting to retry, and the
\* push was then sent again
C13_Reached ==
    /\ SignalledMidStream
    /\ \E i \in TaskIds : tasks[i].push.calls = 2 /\ tasks[i].push.st = "inflight"

\* a run ended on one of the branches that call cleanup()
RunOver == exitPath \notin {"none", "configMissing"}

\* C14: on every exit path of a run the decoder, if it was started, has been
\* sent a termination signal and every constructed client has been destroyed
\* before the run is terminated; cleanup() leaves alone what was never
\* constructed.
C14_TornDownOnEveryExit ==
    /\ \A c \in ClientNames :
          clients[c] = "absent" => (destroyCalls[c] = 0 /\ owner[c] = 0)
    /\ RunOver =>
          /\ Released
          /\ \A c \in ClientNames :
                owner[c] = RunId(msgs) => clients[c] \in {"destroyed", "exited"}
    /\ exitCode # NoExit => Released
    /\ (phase = "Terminated" /\ exitPath # "configMissing") => Released
    /\ exitPath = "configMissing" => \A c \in ClientNames : clients[c] = "absent"

\* the translate constructor threw: the clients constructed before it were
\* destroyed, the translate client and the decoder never existed
C14_Witness ==
    /\ exitPath = "constructFailed"
    /\ clients.ivsChat = "destroyed"
    /\ clients.transcribe = "destroyed"
    /\ clients.translate = "absent"
    /\ clients.ffmpeg = "absent"
    /\ needsTranslation

\* C15: each remote client and the decoder is acquired once per job run and
\* released exactly once: destroy() is never called twice on one client
\* object and no decoder is sent the termination signal twice.
C15_ReleasedExactlyOnce ==
    /\ \A c \in ClientNames : destroyCalls[c] <= 1
    /\ RunOver => \A c \in ClientNames \ {"ffmpeg"} :
                      owner[c] = RunId(msgs) => destroyCalls[c] = 1

\* C15 for the decoder alone, which the `killed` flag protects
C15_DecoderSignalledOnce == destroyCalls.ffmpeg <= 1

\* a client object of the first job was destroyed by the cleanup of that run
\* and again by the cleanup of the next run
C15_Reached ==
    /\ Len(msgs) = 2
    /\ signals = <<>>
    /\ \E c \in ClientNames : owner[c] = 1 /\ destroyCalls[c] = 2

\* main is between two iterations of the worker loop, or past the loop
BetweenJobs == phase \in {"Idle", "Sleeping", "Terminated"}

\* the k-th message is being handled: main has not yet left its iteration
InHandling(k) == k = Len(msgs) /\ ~BetweenJobs

\* the delete of the k-th message was sent after the teardown of its run
DeletedAfterTeardown(k) ==
    msgs[k].deletes >= 1 =>
        \A c \in ClientNames : owner[c] = k => clients[c] # "constructed"

\* C16: every message the queue worker received is deleted once it has been
\* handled, whatever the outcome, and only after the teardown of its run.
C16_EveryMessageDeleted ==
    \A k \in 1..Len(msgs) :
        /\ (~InHandling(k) /\ phase # "Sleeping") => msgs[k].deletes >= 1
        /\ DeletedAfterTeardown(k)

\* C16 for the messages whose body JSON.parse accepted
C16_ParsedMessagesDeleted ==
    \A k \in 1..Len(msgs) :
        /\ (~InHandling(k) /\ msgs[k].handle) => msgs[k].deletes = 1
        /\ DeletedAfterTeardown(k)

\* the worker polls again after a message with an unparsable body, which is
\* still in the queue
C16_Reached ==
    /\ phase = "Idle"
    /\ msgs # <<>>
    /\ msgs[Len(msgs)].kind = "unparsable"
    /\ msgs[Len(msgs)].deletes = 0

\* the objects the main loop of the current run works with
UsedByMainLoop ==
    {"ffmpeg", "ivsChat", "transcribe"}
        \cup (IF variant = "queue" THEN {"ivs"} ELSE {})
        \cup (IF needsTranslation THEN {"translate"} ELSE {})

\* C17: the queue worker has at most one run in progress: it polls for the
\* next message only after the teardown of the previous run and the delete of
\* its message, and the main loop of a run works with the clients and the
\* decoder of that run only.
C17_OneRunAtATime ==
    variant = "queue" =>
        /\ phase = "Idle" =>
              /\ \A c \in ClientNames : clients[c] # "constructed"
              /\ \A k \in 1..Len(msgs) : msgs[k].handle => msgs[k].deletes = 1
        /\ phase \in {"Initializing", "Streaming"} =>
              \A c \in UsedByMainLoop : owner[c] = Len(msgs)
        /\ \A c \in ClientNames :
              /\ owner[c] <= Len(msgs)
              /\ owner[c] < Len(msgs) => clients[c] # "constructed"

\* the second job streams with its own clients while the translate client of
\* the first job, which it does not need, is still in the variable
C17_Witness ==
    /\ variant = "queue"
    /\ Len(msgs) = 2
    /\ phase = "Streaming"
    /\ owner.translate = 1
    /\ owner.ivsChat = 2
    /\ owner.ffmpeg = 2

\* a step of a delivery task: an answer to a translation, push, metadata or
\* persistence call, or a backoff timer
DeliveryStep == tasks' # tasks /\ nEvents' = nEvents

\* the branches on which main leaves the for-await loop
StreamExits == {"ended", "streamFailed", "signal"}

\* C18: a failed translation, push, metadata-attach or persistence call, in any
\* number and order, does not end the run, does not exit the process and is
\* never an unhandled rejection; main leaves the loop only when the stream
\* ends or fails (or, in a single-job build, at a signal).
C18_DeliveryFailuresAbsorbed ==
    /\ [](~Crashed)
    /\ [][DeliveryStep =>
            /\ phase' = phase
            /\ exitCode' = exitCode
            /\ exitPath' = exitPath
            /\ clients' = clients
            /\ returning' = returning]_vars
    /\ [][(phase = "Streaming" /\ phase' # "Streaming") => exitPath' \in StreamExits]_vars

\* translation, push and persistence of one target all failed, the push after
\* three attempts, and the run is streaming still
C18_Witness ==
    /\ phase = "Streaming"
    /\ exitCode = NoExit
    /\ \E i \in TaskIds :
          /\ tasks[i].tr = "failed"
          /\ tasks[i].push.st = "gaveUp"
          /\ tasks[i].persist.st = "failed"

\* every object of the current run was destroyed by cleanup()
RunTornDown ==
    /\ Released
    /\ \A c \in ClientNames \ {"ffmpeg"} :
          owner[c] = RunId(msgs) => (clients[c] = "destroyed" /\ destroyCalls[c] >= 1)

\* C19: a single-job process exits with status 1 on missing configuration,
\* before anything is constructed or spawned; with status 1 on a stream setup
\* or stream error, after cleanup(); and with status 0 at SIGINT/SIGTERM,
\* after cleanup().
C19_ExitFollowsOutcome ==
    variant # "queue" =>
        /\ exitPath = "configMissing" =>
              /\ exitCode = 1
              /\ \A c \in ClientNames :
                    clients[c] = "absent" /\ owner[c] = 0 /\ destroyCalls[c] = 0
        /\ exitPath \in {"setupFailed", "streamFailed"} =>
              /\ exitCode = 1
              /\ owner.ffmpeg = 1
              /\ RunTornDown
        /\ signals # <<>> =>
              /\ exitCode = 0
              /\ exitPath = "signal"
              /\ RunTornDown
        /\ exitCode = 0 => signals # <<>>
        /\ exitCode = 1 =>
              exitPath \in {"configMissing", "constructFailed", "setupFailed", "streamFailed"}

\* a single-job process was streaming when the signal came: decoder killed,
\* clients destroyed, exit status 0
C19_Witness ==
    /\ variant = "single"
    /\ signals = <<"Streaming">>
    /\ exitCode = 0
    /\ clients.ffmpeg = "destroyed"
    /\ clients.ivsChat = "destroyed"

\* the steps main can make from one place to the next
PhaseSteps ==
    { <<"Start", "Idle">>, <<"Start", "Initializing">>, <<"Start", "Terminated">>,
      <<"Idle", "Initializing">>, <<"Idle", "Acknowledging">>, <<"Idle", "Sleeping">>,
      <<"Idle", "Terminated">>, <<"Sleeping", "Idle">>, <<"Sleeping", "Terminated">>,
      <<"Initializing", "Streaming">>, <<"Initializing", "Acknowledging">>,
      <<"Initializing", "Terminated">>, <<"Streaming", "Acknowledging">>,
      <<"Streaming", "Terminated">>, <<"Acknowledging", "Idle">>,
      <<"Acknowledging", "Terminated">> }

\* the run is reported as failed: main returns, or the process exits with 1
TerminatedFailure == returning \/ exitCode = 1

\* C20: a run goes Idle, Initializing, Streaming, Draining, Terminated; when a
\* client constructor fails the run ends as a failure straight away, the
\* clients constructed before are torn down, the decoder is never spawned and
\* the recognition stream is never started; main streams only with all the
\* clients it needs constructed.
C20_ConstructionFailureEndsRun ==
    /\ [][phase' # phase => <<phase, phase'>> \in PhaseSteps]_vars
    /\ [][(exitPath' = "constructFailed" /\ <<exitPath, msgs>> # <<exitPath', msgs'>>) =>
            /\ phase \in {"Start", "Idle"}
            /\ phase' \in {"Acknowledging", "Terminated"}
            /\ nEvents' = nEvents]_vars
    /\ [](exitPath = "constructFailed" =>
            /\ TerminatedFailure
            /\ owner.ffmpeg # RunId(msgs)
            /\ RunTornDown
            /\ phase \in {"Acknowledging", "Terminated"})
    /\ [](phase \in {"Initializing", "Streaming"} =>
            \A c \in UsedByMainLoop : owner[c] = RunId(msgs))

\* the transcribe constructor of a single-job process threw after the chat
\* client was constructed
C20_Witness ==
    /\ variant = "single"
    /\ exitPath = "constructFailed"
    /\ exitCode = 1
    /\ clients.ivsChat = "destroyed"
    /\ clients.transcribe = "absent"
    /\ clients.ffmpeg = "absent"

\* the run ended in the catch block of the main try
StreamFailed == exitPath \in {"setupFailed", "streamFailed"}

\* C21: a failure to establish the recognition stream (a rejection or an answer
\* without a result stream) or an error of the established event stream is
\* fatal to the run: the run is torn down and ends as a failure, no event is
\* taken afterwards, and the recognition call is issued once per run, never
\* again after a failure.
C21_StreamFailureIsFatal ==
    /\ [](StreamFailed =>
            /\ phase \in {"Acknowledging", "Terminated"}
            /\ TerminatedFailure
            /\ RunTornDown)
    /\ [][StreamFailed => (nEvents' = nEvents /\ phase' \notin {"Initializing", "Streaming"})]_vars
    /\ [][(phase' = "Initializing" /\ phase # "Initializing") =>
            /\ phase \in {"Start", "Idle"}
            /\ ~StreamFailed
            /\ variant = "queue" => Len(msgs') = Len(msgs) + 1]_vars
    /\ [][(phase \in {"Initializing", "Streaming"} /\ exitPath' # exitPath) =>
            phase' \in {"Acknowledging", "Terminated"}]_vars

\* the event stream of a queue job threw after an event was taken: the run
\* was torn down, its message deleted, and main returned
C21_Witness ==
    /\ variant = "queue"
    /\ exitPath = "streamFailed"
    /\ nEvents >= 1
    /\ phase = "Terminated"
    /\ returning
    /\ msgs[Len(msgs)].deletes = 1
    /\ clients.transcribe = "destroyed"

----------------------------------------------------------------------------
(* Properties of the scheduling of intake and delivery *)

\* the deliveries of event ev that have a call in flight or a backoff timer
\* pending
Pending(ev) == { i \in TaskIds : tasks[i].ev = ev /\ ~Settled(tasks[i]) }

\* C22: the main loop takes the next recognition event without waiting for a
\* delivery, a retry backoff or a translation of an earlier result: whatever
\* the delivery tasks are at, a streaming run can take any event, and taking
\* it leaves the pending deliveries as they are.
C22_IntakeNeverBlocked ==
    /\ [](RoomForEvent => \A event \in Events : ENABLED ReceiveEvent(event))
    /\ [][nEvents' = nEvents + 1 =>
            /\ Len(tasks') >= Len(tasks)
            /\ SubSeq(tasks', 1, Len(tasks)) = tasks]_vars

\* the second event was classified while, of the first, a push was waiting in
\* backoff and a translation was in flight
C22_Witness ==
    /\ nEvents = 2
    /\ \E i, j \in Pending(1) :
          /\ tasks[i].push.st = "backoff"
          /\ tasks[j].tr = "inflight"
    /\ \E k \in TaskIds : tasks[k].ev = 2 /\ tasks[k].started

----------------------------------------------------------------------------
(* Properties of the backoff *)

\* the waits of a retry loop that used up its attempts, in milliseconds
FullBackoff == <<1000, 2000>>

\* C23: in the retry loop of the push and of metadata-attach the wait after the
\* k-th failed attempt is 500 ms * 2^k, k from 1: 1000 ms after the first
\* failure, 2000 ms after the second, none after the third; a loop ends after
\* at most 3 remote calls and 2 waits.
C23_BackoffDoubles ==
    \A i \in TaskIds : \A l \in LoopsOf(i) :
        /\ l.calls <= 3
        /\ l.waits <= 2
        /\ Len(l.delays) = l.waits
        /\ l.delays = SubSeq(FullBackoff, 1, l.waits)
        /\ \A k \in 1..Len(l.delays) : l.delays[k] = 500 * Pow2(k)
        /\ l.st = "backoff" => l.waits = l.attempts
        /\ l.st = "gaveUp" =>
              /\ l.attempts = 3
              /\ l.calls = 3
              /\ l.delays = FullBackoff

\* a push gave up after waits of 1000 ms and 2000 ms while the metadata-attach
\* of the same result succeeded after one wait of 1000 ms
C23_Witness ==
    \E i \in TaskIds :
        /\ tasks[i].push.st = "gaveUp"
        /\ tasks[i].push.delays = <<1000, 2000>>
        /\ tasks[i].meta.st = "done"
        /\ tasks[i].meta.delays = <<1000>>

----------------------------------------------------------------------------
(* Properties of the delivery targets *)

\* the texts the three delivery actions of task i were given are one text,
\* the one handed to sendTranscriptEvent
OneText(i) ==
    /\ tasks[i].push.calls > 0 => tasks[i].push.text = tasks[i].text
    /\ tasks[i].meta.calls > 0 => tasks[i].meta.text = tasks[i].text
    /\ tasks[i].persist.calls > 0 => tasks[i].persist.text = tasks[i].text

\* C24: for a final result delivered in a target language the text given to
\* persistence and to metadata-attach is the text pushed as the live update
\* for that language: the translated text, or the source text on fallback.
C24_OneTextPerTarget ==
    \A i \in TranslationTasks :
        (~tasks[i].isPartial /\ tasks[i].started) =>
            /\ OneText(i)
            /\ tasks[i].text = (IF FellBack(tasks[i]) THEN tasks[i].src
                                ELSE TranslatedTextOf(tasks[i].lang))

\* C24 in the builds whose handleTranslation saves what it pushes
C24_ExceptSingle == variant # "single" => C24_OneTextPerTarget

\* the "single" build pushed the translation of a final result and saved the
\* source text under the target language
C24_Reached ==
    \E i \in TranslationTasks :
        /\ variant = "single"
        /\ ~tasks[i].isPartial
        /\ tasks[i].push.text = "bonjour"
        /\ tasks[i].persist.text = tasks[i].src
        /\ tasks[i].persist.st = "saved"

----------------------------------------------------------------------------
(* Properties of the order of processing *)

\* the source-language deliveries, and the translations into lang
SourceTasks == { i \in TaskIds : tasks[i].slot = 0 }
TranslationsInto(lang) == { i \in TranslationTasks : tasks[i].lang = lang }

\* C25: recognition events are processed in arrival order: in the source
\* language the first push attempt of result n is issued before that of result
\* n+1, and in every target language the translation call of result n is
\* issued before that of result n+1.
C25_ArrivalOrder ==
    /\ \A i, j \in TaskIds : i < j => tasks[i].ev <= tasks[j].ev
    /\ \A i \in TaskIds : tasks[i].ev <= nEvents
    /\ \A i \in SourceTasks : HasId(tasks[i]) => tasks[i].push.calls >= 1
    /\ \A i \in TranslationTasks : tasks[i].trCalls = 1
    /\ \A i, j \in SourceTasks :
          (tasks[i].ev < tasks[j].ev /\ HasId(tasks[i]) /\ tasks[j].push.calls >= 1) =>
              tasks[i].push.calls >= 1
    /\ \A lang \in {"fr-FR", "de-DE"} : \A i, j \in TranslationsInto(lang) :
          (tasks[i].ev < tasks[j].ev /\ tasks[j].trCalls >= 1) => tasks[i].trCalls >= 1

\* two results were taken in order; the second was pushed and translated
\* while the push of the first waited in backoff and its translation was
\* still in flight
C25_Witness ==
    \E i, j \in SourceTasks : \E a, b \in TranslationsInto("fr-FR") :
        /\ tasks[i].ev = 1 /\ tasks[j].ev = 2
        /\ tasks[a].ev = 1 /\ tasks[b].ev = 2
        /\ tasks[i].push.st = "backoff" /\ tasks[j].push.st = "done"
        /\ tasks[a].tr = "inflight" /\ tasks[b].tr = "ok"

----------------------------------------------------------------------------
(* Properties of the segmenter's pulling *)

\* C26: the segmenter is pull-driven and holds at most one source read at a
\* time: it takes the next source read only after every chunk of the reads
\* before has been yielded and the consumer has asked again, and it yields a
\* chunk only in answer to a request of the consumer.
C26_PullDriven ==
    /\ [](/\ Len(segChunks) <= segAsked
          /\ segAsked <= Len(segChunks) + 1)
    /\ [][Len(segChunks') # Len(segChunks) =>
            /\ Outstanding
            /\ Len(segChunks') = Len(segChunks) + 1]_vars
    /\ [][Len(segPulled') # Len(segPulled) =>
            /\ Len(segPulled') = Len(segPulled) + 1
            /\ Bytes(segChunks) = Bytes(WholeReads(segPulled))
            /\ segAsked = Len(segChunks) + 1]_vars
    /\ [](segPc \in {"slice", "yielded"} =>
            Bytes(SelectSeq(segChunks, LAMBDA c : c.read < Len(segPulled)))
                = Bytes(WholeReads(SubSeq(segPulled, 1, Len(segPulled) - 1))))

\* the generator is suspended at a yield in the middle of a read, the consumer
\* has not asked again, and the next source read has not been requested
C26_Witness ==
    /\ segPc = "yielded"
    /\ ~Outstanding
    /\ Len(segChunks) >= 2
    /\ SliceEnd(segOffset, segCur) < segCur
    /\ segReads # <<>>
    /\ Len(segPulled) = 2

----------------------------------------------------------------------------
(* Properties of the worker loop at shutdown *)

\* a step that starts a run: a client is constructed, the decoder spawned or
\* the recognition call sent
StartsRun == owner' # owner \/ (phase = "Idle" /\ phase' = "Initializing")

\* C27: in the queue-driven worker no new run is started once a shutdown
\* signal was received: a message returned by a receive that was pending at
\* the signal leads to no client construction, no decoder and no recognition
\* stream.
C27_NoRunAfterSignal ==
    [][(variant = "queue" /\ shuttingDown) => ~StartsRun]_vars

\* C27 for a signal that arrives while no receive is pending: the loop test
\* ends the worker after the current iteration
C27_UnlessReceivePending ==
    [][(variant = "queue" /\ shuttingDown /\ signals # <<"Idle">>) => ~StartsRun]_vars

\* the signal came while the receive was pending; the message it returned
\* then was run up to the event stream
C27_Reached ==
    /\ variant = "queue"
    /\ signals = <<"Idle">>
    /\ shuttingDown
    /\ phase = "Streaming"
    /\ owner.ffmpeg = Len(msgs)
    /\ clients.transcribe = "constructed"

----------------------------------------------------------------------------
(* Properties of the delivery calls after teardown *)

\* the calls issued so far on the chat client, the IVS client and the
\* translate client
RECURSIVE PushCalls(_)
PushCalls(ts) == IF ts = <<>> THEN 0 ELSE Head(ts).push.calls + PushCalls(Tail(ts))

RECURSIVE MetaCalls(_)
MetaCalls(ts) == IF ts = <<>> THEN 0 ELSE Head(ts).meta.calls + MetaCalls(Tail(ts))

RECURSIVE TranslationCalls(_)
TranslationCalls(ts) == IF ts = <<>> THEN 0 ELSE Head(ts).trCalls + TranslationCalls(Tail(ts))

\* C28: no push, metadata-attach or translation call is issued on a client
\* that teardown has destroyed: a delivery waiting in backoff or for its
\* translation when the stream ends or a signal arrives never calls send on a
\* released client.
C28_NoCallOnReleasedClient ==
    [][/\ PushCalls(tasks') > PushCalls(tasks) => clients.ivsChat = "constructed"
       /\ MetaCalls(tasks') > MetaCalls(tasks) => clients.ivs = "constructed"
       /\ TranslationCalls(tasks') > TranslationCalls(tasks) =>
             clients.translate = "constructed"]_vars

\* C28 up to the teardown: while the run streams and no signal has arrived,
\* every call is issued on a constructed client
C28_WhileStreaming ==
    [][(phase = "Streaming" /\ signals = <<>>) =>
          /\ PushCalls(tasks') > PushCalls(tasks) => clients.ivsChat = "constructed"
          /\ MetaCalls(tasks') > MetaCalls(tasks) => clients.ivs = "constructed"
          /\ TranslationCalls(tasks') > TranslationCalls(tasks) =>
                clients.translate = "constructed"]_vars

----------------------------------------------------------------------------
(* Properties of the order of the live updates of one result id *)

\* task i delivers a partial emission of a result id and task j the final
\* emission, taken later, of the same id in the same language
PartialThenFinal(i, j) ==
    /\ tasks[i].isPartial /\ ~tasks[j].isPartial
    /\ HasId(tasks[i]) /\ tasks[i].resultId = tasks[j].resultId
    /\ tasks[i].lang = tasks[j].lang
    /\ tasks[i].ev < tasks[j].ev

\* the live update of the task has reached the messaging channel
Reached(t) == t.push.st = "done"

\* C29 as stated: for one result id and one language the partial live update
\* never reaches the messaging channel after the final one has reached it.
C29_PartialNeverAfterFinal ==
    [][\A i, j \in TaskIds :
          (PartialThenFinal(i, j) /\ Reached(tasks[j]) /\ ~Reached(tasks[i])) =>
              ~Reached(tasks'[i])]_vars

\* C29 amended: the order is one of issue, in the source language only: the
\* first push attempt of the partial update is sent before the first attempt
\* of the final update of the same result id, and a retry sends the same
\* update again; nothing orders their arrival at the channel.
C29_IssuedInOrder ==
    \A i, j \in SourceTasks :
        PartialThenFinal(i, j) =>
            /\ tasks[j].push.calls >= 1 => tasks[i].push.calls >= 1
            /\ Reached(tasks[j]) =>
                  tasks[i].push.st \in {"inflight", "backoff", "done", "gaveUp"}
            /\ tasks[i].push.text = tasks[i].text
            /\ tasks[j].push.text = tasks[j].text

\* the final update of a result id has reached the channel in both languages
\* while the partial one is being sent again in the source language and still
\* awaits its translation in the target language
C29_Witness ==
    \E i, j \in SourceTasks : \E a, b \in TranslationTasks :
        /\ PartialThenFinal(i, j) /\ PartialThenFinal(a, b)
        /\ Reached(tasks[j]) /\ Reached(tasks[b])
        /\ tasks[i].push.st = "inflight" /\ tasks[i].push.calls = 2
        /\ tasks[a].tr = "inflight"

----------------------------------------------------------------------------
(* Properties of the worker loop after a run *)

\* the branches on which a run of the queue worker ends in failure
FailurePaths == {"jobDataMissing", "constructFailed", "setupFailed", "streamFailed"}

\* C30: in the queue-driven worker a run that ends by natural end-of-stream
\* is followed by another receive unless shutdown was signalled, and a run
\* that ends in failure (missing job data, constructor failure, stream setup
\* or stream error) ends the worker loop: its message is deleted and no
\* further message is received.
C30_LoopEndsOnFailure ==
    /\ [][(variant = "queue" /\ phase = "Acknowledging" /\ phase' # phase) =>
            IF exitPath = "ended" /\ ~shuttingDown /\ exitCode' = NoExit
            THEN phase' = "Idle"
            ELSE phase' = "Terminated"]_vars
    /\ [](variant = "queue" =>
            /\ exitPath \in FailurePaths =>
                  /\ returning
                  /\ phase \in {"Acknowledging", "Terminated"}
                  /\ msgs[Len(msgs)].deletes = 1
            /\ (phase = "Acknowledging" /\ exitPath = "ended") =>
                  (~returning /\ msgs[Len(msgs)].deletes = 1))
    /\ [][(variant = "queue" /\ exitPath \in FailurePaths) =>
            /\ msgs' = msgs
            /\ phase' \notin {"Idle", "Sleeping", "Initializing", "Streaming"}]_vars
    /\ [][Len(msgs') > Len(msgs) => exitPath \in {"none", "ended"}]_vars

\* the first job ended with its stream and the worker received a second
\* message; that job failed, its message was deleted and main returned
C30_Witness ==
    /\ variant = "queue"
    /\ Len(msgs) = 2
    /\ msgs[1].kind = "good" /\ msgs[1].deletes = 1
    /\ exitPath = "streamFailed"
    /\ msgs[2].deletes = 1
    /\ phase = "Terminated"
    /\ exitCode = NoExit
    /\ ~shuttingDown

----------------------------------------------------------------------------
(* Properties of the fan-out *)

\* the entries of the target list that differ from the source language
DifferingEntries == { k \in 1..Len(toLangs) : toLangs[k] # fromLang }

\* the delivery tasks started for event ev
StartedFor(ev) == { i \in TaskIds : tasks[i].ev = ev }

\* C31: every classified result starts 1 + (number of target-list entries that
\* differ from the source language) delivery tasks: the source-language
\* delivery always, whether or not the list names the source language; no
\* second delivery for an entry equal to the source language; one
\* translation-and-delivery task per differing entry.
C31_OnePlusDifferingEntries ==
    /\ Cardinality({ ev \in 1..nEvents : StartedFor(ev) # {} }) = nEvents - nDropped
    /\ \A ev \in 1..nEvents :
          StartedFor(ev) # {} =>
              /\ Cardinality(StartedFor(ev)) = 1 + Cardinality(DifferingEntries)
              /\ Cardinality(StartedFor(ev) \cap SourceTasks) = 1
              /\ \A i \in StartedFor(ev) \cap SourceTasks :
                    tasks[i].lang = fromLang /\ tasks[i].started /\ tasks[i].trCalls = 0
              /\ \A k \in DifferingEntries :
                    Cardinality({ i \in StartedFor(ev) : tasks[i].slot = k }) = 1
              /\ \A i \in StartedFor(ev) \ SourceTasks :
                    /\ tasks[i].slot \in DifferingEntries
                    /\ tasks[i].lang = toLangs[tasks[i].slot]
                    /\ tasks[i].trCalls = 1

\* a result of a job whose target list does not name the source language was
\* delivered in the source language and in both targets
C31_Witness ==
    /\ toLangs = <<"fr-FR", "de-DE">>
    /\ Len(tasks) = 3
    /\ \A i \in TaskIds : tasks[i].ev = 1 /\ tasks[i].push.st = "done"
    /\ tasks[1].lang = fromLang

----------------------------------------------------------------------------
(* Properties of the worker loop at a polling error *)

\* the delete calls sent so far
RECURSIVE Deletes(_)
Deletes(ms) == IF ms = <<>> THEN 0 ELSE Head(ms).deletes + Deletes(Tail(ms))

\* C32: in the queue-driven worker a failed receive never terminates the
\* worker and never deletes a message: the worker waits and then polls again,
\* unless a shutdown was signalled.
C32_PollingErrorAbsorbed ==
    /\ [][PollFails =>
            /\ phase' = "Sleeping"
            /\ exitCode' = NoExit
            /\ ~returning'
            /\ msgs' = msgs
            /\ clients' = clients]_vars
    /\ [][(phase = "Sleeping" /\ phase' # phase) =>
            /\ phase' = (IF shuttingDown THEN "Terminated" ELSE "Idle")
            /\ exitCode' = NoExit
            /\ Deletes(msgs') = Deletes(msgs)]_vars
    /\ [][phase = "Sleeping" => Deletes(msgs') = Deletes(msgs)]_vars
    /\ [](phase = "Sleeping" =>
            /\ variant = "queue"
            /\ exitCode = NoExit
            /\ ~returning
            /\ ENABLED SleepElapsed)

\* after a first job was run and its message deleted, the next receive failed
\* and the worker is in its 5 s wait
C32_Witness ==
    /\ variant = "queue"
    /\ phase = "Sleeping"
    /\ ~shuttingDown
    /\ Len(msgs) = 1
    /\ msgs[1].kind = "good"
    /\ msgs[1].deletes = 1
    /\ exitPath = "ended"

----------------------------------------------------------------------------
(* Properties of what is sent *)

\* the texts a delivery in language lang can carry, given the recognised text
DeliverableTexts(t) ==
    {IF variant = "queue" THEN Clean(t.raw) ELSE t.raw}
        \cup (IF t.slot > 0 THEN {TranslatedTextOf(t.lang)} ELSE {})

\* C33: every live update and every metadata record sent carries a non-empty
\* result id and a text derived from a non-empty recognised text: no push and
\* no metadata-attach call is made for an event the classifier drops, and a
\* translation answered without text never gives an empty delivered text.
C33_NothingEmptyIsSent ==
    /\ [](\A i \in TaskIds :
            /\ tasks[i].raw # ""
            /\ tasks[i].src # ""
            /\ tasks[i].push.calls > 0 =>
                  /\ HasId(tasks[i])
                  /\ tasks[i].push.text # ""
                  /\ tasks[i].push.text \in DeliverableTexts(tasks[i])
            /\ tasks[i].meta.calls > 0 =>
                  /\ HasId(tasks[i])
                  /\ tasks[i].meta.text # ""
                  /\ tasks[i].meta.text \in DeliverableTexts(tasks[i])
            /\ (tasks[i].started /\ FellBack(tasks[i])) =>
                  (tasks[i].text = tasks[i].src /\ tasks[i].text # ""))
    /\ [][\A event \in Events :
            (ReceiveEvent(event) /\ LacksText(event)) =>
                /\ PushCalls(tasks') = PushCalls(tasks)
                /\ MetaCalls(tasks') = MetaCalls(tasks)]_vars

\* an event was dropped, and the translation of a final result was answered
\* without text: its push and its metadata record carry the source text
C33_Witness ==
    /\ variant = "queue"
    /\ nDropped >= 1
    /\ \E i \in TranslationTasks :
          /\ tasks[i].tr = "empty"
          /\ tasks[i].push.st = "done" /\ tasks[i].push.text = "hello ****"
          /\ tasks[i].meta.st = "done" /\ tasks[i].meta.text = "hello ****"

====
